---- MODULE Spec2Model ----
(***************************************************************************)
(* Model of the Azure 2019 trace ingestion pipeline (src/Azure2019.py):    *)
(* create_hash_id, normalize_time_list, process_file and the coordinator   *)
(* process_invocation_data with its ThreadPoolExecutor fan-out/fan-in.     *)
(*                                                                         *)
(* Strings are sequences of one-character strings, so that the f-string    *)
(* concatenation of create_hash_id is computed and not assumed.            *)
(* A Python list is a sequence.  A Python dict is a sequence of            *)
(* [uuid, time] entries in insertion order (dicts keep insertion order).   *)
(* A CSV cell is <<>> when it is null and <<c>> when it holds the          *)
(* integer c.  A polars frame whose row order the library leaves           *)
(* unspecified (DataFrame.unique) is a bag of rows.                        *)
(***************************************************************************)
EXTENDS Integers, Sequences, FiniteSets, Bags, TLC

\* ------------------------------------------------------------------------
\* Bounds of the model
\* ------------------------------------------------------------------------
MaxShards == 2      \* invocation files in the input directory
MaxTotalRows == 2   \* rows in the whole directory
MaxWorkers == 2     \* max_workers values tried: 1..MaxWorkers
MaxStrLen == 1      \* length of the strings given to create_hash_id alone
MaxCalls == 2       \* create_hash_id calls compared with each other
MaxListLen == 3     \* length of the lists given to normalize_time_list alone
MaxTime == 5        \* latest timestamp in these lists

\* ------------------------------------------------------------------------
\* Program constants
\* ------------------------------------------------------------------------
MinutesPerDay == 1440          \* 24 * 60, range(1, 1441)

VARIABLES
    dir_exists,            \* os.path.exists(base_path)
    directory,             \* the invocation files of base_path: file name -> file
    main_pc,               \* position of main
    parquet,               \* output artifacts written: artifact name -> table
    invocation_files,      \* sorted listing: invocation_files[i] is the file of file_idx i-1
    max_workers,           \* size of the thread pool
    pc,                    \* position of process_invocation_data
    task,                  \* task[i]: state of the future of file i
    result,                \* result[i]: what process_file returned for file i
    function_invocations,  \* global dict func_id -> timestamps
    translation_data,      \* global list of translation records
    completed,             \* counter of merged results
    diagnostics,           \* "Error processing file ..." lines printed so far
    df_invocations,        \* output invocation table (list of rows)
    translation_df,        \* output translation table (bag of rows)
    hash_calls,            \* create_hash_id calls made on its own (SpecHash)
    normalize_call         \* normalize_time_list call made on its own (SpecNormalize)

vars == <<dir_exists, directory, main_pc, parquet,
          invocation_files, max_workers, pc, task, result, function_invocations,
          translation_data, completed, diagnostics, df_invocations,
          translation_df, hash_calls, normalize_call>>

\* what main holds besides the call of process_invocation_data
mainVars == <<dir_exists, directory, main_pc, parquet>>

\* the calls of the pure functions on their own
callVars == <<hash_calls, normalize_call>>

\* ------------------------------------------------------------------------
\* Small helpers
\* ------------------------------------------------------------------------
SetMin(S) == CHOOSE m \in S : \A n \in S : m <= n

Range(s) == {s[k] : k \in 1..Len(s)}

RECURSIVE SumSeq(_)
SumSeq(s) == IF s = <<>> THEN 0 ELSE Head(s) + SumSeq(Tail(s))

\* [x] * n
Copies(x, n) == [k \in 1..n |-> x]

\* multiset of the elements of a sequence
SeqToBag(s) == [x \in Range(s) |-> Cardinality({k \in 1..Len(s) : s[k] = x})]

\* ------------------------------------------------------------------------
\* create_hash_id (src/Azure2019.py:10-13)
\* ------------------------------------------------------------------------
\* characters of the modelled strings and their codes
Chars == {"a", "b", "_"}

CharCode(c) == CASE c = "a" -> 1 [] c = "b" -> 2 [] c = "_" -> 3

\* hashlib.md5(s.encode()).hexdigest()[:10], taken to be injective on the
\* string it is given: the bijective base-4 numeral of the character codes.
RECURSIVE md5_hexdigest10(_)
md5_hexdigest10(s) ==
    IF s = <<>> THEN 0 ELSE CharCode(Head(s)) + 4 * md5_hexdigest10(Tail(s))

\* f"{owner}_{app}_{func}"
combined(owner, app, func) == owner \o <<"_">> \o app \o <<"_">> \o func

create_hash_id(owner, app, func) == md5_hexdigest10(combined(owner, app, func))

\* ------------------------------------------------------------------------
\* normalize_time_list (src/Azure2019.py:16-21)
\* ------------------------------------------------------------------------
\* variant: anchors the list at its first element instead of its minimum
normalize_time_list_first(time_list) ==
    IF time_list = <<>> THEN <<>>
    ELSE [k \in 1..Len(time_list) |-> time_list[k] - time_list[1]]

\* variant: the series is shifted to the first minute of the trace
normalize_time_list_origin(time_list) ==
    IF time_list = <<>> THEN <<>>
    ELSE [k \in 1..Len(time_list) |-> time_list[k] - 1]

\* round(t - min_val, 3) of integers is t - min_val; the Float64 cast keeps it.
normalize_time_list(time_list) ==
    IF time_list = <<>> THEN <<>>
    ELSE LET min_val == SetMin(Range(time_list))
         IN  [k \in 1..Len(time_list) |-> time_list[k] - min_val]

\* ------------------------------------------------------------------------
\* Python dict as an insertion-ordered sequence of [uuid, time] entries
\* ------------------------------------------------------------------------
DictKeys(d) == {d[k].uuid : k \in 1..Len(d)}

DictIndex(d, key) == CHOOSE k \in 1..Len(d) : d[k].uuid = key

DictGet(d, key) == d[DictIndex(d, key)].time

\* d[key] = value: replaces the value of an existing key, else appends
DictSet(d, key, value) ==
    IF key \in DictKeys(d)
    THEN [d EXCEPT ![DictIndex(d, key)].time = value]
    ELSE Append(d, [uuid |-> key, time |-> value])

\* ------------------------------------------------------------------------
\* process_file (src/Azure2019.py:24-82)
\* ------------------------------------------------------------------------
IsNull(cell) == cell = <<>>

\* for minute in range(1, 1441): ... (lines 68-73), visiting the minute
\* columns the row has in ascending order; a null cell makes the
\* comparison row_dict[minute_str] > 0 raise TypeError.
RECURSIVE MinuteLoop(_, _, _, _)
MinuteLoop(counts, base_timestamp, minutes, timestamps) ==
    IF minutes = {} THEN [raised |-> FALSE, timestamps |-> timestamps]
    ELSE LET minute == SetMin(minutes)
             cell == counts[minute]
         IN  IF IsNull(cell)
             THEN [raised |-> TRUE, timestamps |-> <<>>]
             ELSE MinuteLoop(counts, base_timestamp, minutes \ {minute},
                     IF cell[1] > 0
                     THEN timestamps \o Copies(base_timestamp + minute, cell[1])
                     ELSE timestamps)

RowTimestamps(row_dict, base_timestamp) ==
    MinuteLoop(row_dict.counts, base_timestamp,
               (DOMAIN row_dict.counts) \cap (1..MinutesPerDay), <<>>)

\* the record appended to file_translations (lines 57-64)
TranslationRecord(row_dict) ==
    [HashOwner |-> row_dict.HashOwner,
     HashApp |-> row_dict.HashApp,
     HashFunction |-> row_dict.HashFunction,
     Trigger |-> row_dict.Trigger,
     original_uuid |-> combined(row_dict.HashOwner, row_dict.HashApp, row_dict.HashFunction),
     new_hash_uuid |-> create_hash_id(row_dict.HashOwner, row_dict.HashApp, row_dict.HashFunction)]

\* variant: stores the list without the "if timestamps" test
StoreTimestamps_always(file_invocations, func_id, timestamps) ==
    DictSet(file_invocations, func_id, timestamps)

\* file_invocations[func_id] = timestamps, only if timestamps (lines 75-76)
StoreTimestamps(file_invocations, func_id, timestamps) ==
    IF timestamps # <<>> THEN DictSet(file_invocations, func_id, timestamps)
    ELSE file_invocations

\* variant: the except block returns what the loop had collected
ExceptReturn_partial(cause, file_invocations, file_translations) ==
    [ok |-> FALSE, cause |-> cause,
     file_invocations |-> file_invocations, file_translations |-> file_translations]

\* variant: the except block returns the series collected so far and no
\* translation records
ExceptReturn_series(cause, file_invocations, file_translations) ==
    [ok |-> FALSE, cause |-> cause,
     file_invocations |-> file_invocations, file_translations |-> <<>>]

\* except Exception as e: ... return {}, [] (lines 80-82); the collectors of
\* the try block are in scope and are dropped
ExceptReturn(cause, file_invocations, file_translations) ==
    [ok |-> FALSE, cause |-> cause, file_invocations |-> <<>>, file_translations |-> <<>>]

\* for row_dict in row_iterator: ... (lines 47-76) from row k on
RECURSIVE RowLoop(_, _, _, _, _)
RowLoop(row_dicts, base_timestamp, k, file_invocations, file_translations) ==
    IF k > Len(row_dicts)
    THEN [ok |-> TRUE, cause |-> "none",
          file_invocations |-> file_invocations,
          file_translations |-> file_translations]
    ELSE LET row_dict == row_dicts[k]
             func_id == create_hash_id(row_dict.HashOwner, row_dict.HashApp,
                                       row_dict.HashFunction)
             expanded == RowTimestamps(row_dict, base_timestamp)
         IN  IF expanded.raised
             THEN ExceptReturn("TypeError", file_invocations,
                               Append(file_translations, TranslationRecord(row_dict)))
             ELSE RowLoop(row_dicts, base_timestamp, k + 1,
                          StoreTimestamps(file_invocations, func_id, expanded.timestamps),
                          Append(file_translations, TranslationRecord(row_dict)))

process_file(file, file_idx) ==
    IF ~file.readable
    THEN ExceptReturn("read_csv", <<>>, <<>>)
    ELSE RowLoop(file.rows, file_idx * 24 * 60, 1, <<>>, <<>>)

\* ------------------------------------------------------------------------
\* process_invocation_data (src/Azure2019.py:85-162)
\* ------------------------------------------------------------------------
\* variant: the merge assigns instead of extending
MergeItem_overwrite(global, func_id, timestamps) ==
    DictSet(global, func_id, timestamps)

\* variant: every item of a result becomes an entry of its own
MergeItem_append(global, func_id, timestamps) ==
    Append(global, [uuid |-> func_id, time |-> timestamps])

\* body of the merge loop (lines 121-124)
MergeItem(global, func_id, timestamps) ==
    IF func_id \in DictKeys(global)
    THEN DictSet(global, func_id, DictGet(global, func_id) \o timestamps)
    ELSE DictSet(global, func_id, timestamps)

\* for func_id, timestamps in file_invocations.items(): ... (lines 120-124),
\* from item k on
RECURSIVE MergeInvocations(_, _, _)
MergeInvocations(global, file_invocations, k) ==
    IF k > Len(file_invocations) THEN global
    ELSE MergeInvocations(
             MergeItem(global, file_invocations[k].uuid, file_invocations[k].time),
             file_invocations, k + 1)

\* lines 137-151: one row per key, time normalized, call_count = len(time)
NormalizedFrame(invocations) ==
    [k \in 1..Len(invocations) |->
        [uuid |-> invocations[k].uuid,
         time |-> normalize_time_list(invocations[k].time),
         call_count |-> Len(invocations[k].time)]]

\* variant: ascending order (descending=True left out)
StaysBefore_ascending(earlier, row) == earlier.call_count <= row.call_count

\* descending=True: a row already placed stays before a row that does not
\* have a larger call_count
StaysBefore(earlier, row) == earlier.call_count >= row.call_count

\* DataFrame.sort('call_count', descending=True) (line 154): insertion sort
RECURSIVE InsertDescending(_, _)
InsertDescending(row, sorted) ==
    IF sorted = <<>> THEN <<row>>
    ELSE IF StaysBefore(Head(sorted), row)
         THEN <<Head(sorted)>> \o InsertDescending(row, Tail(sorted))
         ELSE <<row>> \o sorted

RECURSIVE SortDescending(_)
SortDescending(rows) ==
    IF rows = <<>> THEN <<>>
    ELSE InsertDescending(rows[Len(rows)], SortDescending(SubSeq(rows, 1, Len(rows) - 1)))

\* the orders in which the rows of a frame may reach the sort: polars does
\* not keep the order of equal keys (maintain_order=False)
Arrangements(rows) ==
    {[k \in 1..Len(rows) |-> rows[p[k]]] :
        p \in {q \in [1..Len(rows) -> 1..Len(rows)] :
                  \A a, b \in 1..Len(rows) : a # b => q[a] # q[b]}}

\* variant: the frame is built without .unique()
Unique_keep(records) == SeqToBag(records)

\* pl.DataFrame(translation_data).unique() (line 157)
Unique(records) == SetToBag(Range(records))

\* ------------------------------------------------------------------------
\* Inputs
\* ------------------------------------------------------------------------
Str(c) == <<c>>

Row(owner, app, func, trigger, c1, c1440) ==
    [HashOwner |-> owner, HashApp |-> app, HashFunction |-> func, Trigger |-> trigger,
     counts |-> (1 :> c1) @@ (MinutesPerDay :> c1440)]

\* rows of the modelled files: every file has the minute columns "1" and
\* "1440" and lacks the columns "2".."1439"
Rows ==
    { Row(Str("a"), Str("a"), Str("a"), "http", <<2>>, <<0>>),
      Row(Str("a"), Str("a"), Str("b"), "timer", <<0>>, <<1>>),
      Row(Str("a"), Str("a"), Str("b"), "timer", <<0>>, <<0>>),
      Row(Str("a"), Str("a"), Str("a"), "http", <<1>>, <<>>) }

Files ==
    {[readable |-> FALSE, rows |-> <<>>]} \cup
    {[readable |-> TRUE, rows |-> r] : r \in UNION {[1..n -> Rows] : n \in 0..MaxTotalRows}}

TotalRows(files) == SumSeq([k \in 1..Len(files) |-> Len(files[k].rows)])

Listings ==
    {files \in UNION {[1..n -> Files] : n \in 0..MaxShards} :
        TotalRows(files) <= MaxTotalRows}

FileIds == 1..Len(invocation_files)

\* ------------------------------------------------------------------------
\* State machine of process_invocation_data
\* ------------------------------------------------------------------------
NoResult == [ok |-> FALSE, cause |-> "pending", file_invocations |-> <<>>,
             file_translations |-> <<>>]

Init ==
    /\ dir_exists \in BOOLEAN
    /\ directory \in (IF dir_exists THEN Listings ELSE {<<>>})
    /\ main_pc = "check"
    /\ parquet = <<>>
    /\ invocation_files = <<>>
    /\ max_workers \in 1..MaxWorkers
    /\ pc = "submit"
    /\ task = <<>>
    /\ result = <<>>
    /\ function_invocations = <<>>
    /\ translation_data = <<>>
    /\ completed = 0
    /\ diagnostics = <<>>
    /\ df_invocations = <<>>
    /\ translation_df = EmptyBag
    /\ hash_calls = <<>>
    /\ normalize_call = <<>>

\* variant: the collecting loop is left after the first merged result
AllCompleted_first ==
    FileIds = {} \/ \E i \in FileIds : task[i] = "merged"

\* as_completed has yielded every future and the with-block has joined the
\* pool (lines 104, 114)
AllCompleted == \A i \in FileIds : task[i] = "merged"

\* variant: the except block prints nothing
ReportError_silent(printed, file, r) == printed

\* print(f"Error processing file {os.path.basename(file_path)}: {e}") (line 81)
ReportError(printed, file, r) ==
    IF r.ok THEN printed ELSE Append(printed, [file |-> file, cause |-> r.cause])

\* file names are the day numbers of "...anon.d01.csv", "...anon.d02.csv", ...;
\* their lexicographic order is the order of the numbers
RECURSIVE InsertAscending(_, _)
InsertAscending(name, sorted) ==
    IF sorted = <<>> THEN <<name>>
    ELSE IF Head(sorted) <= name
         THEN <<Head(sorted)>> \o InsertAscending(name, Tail(sorted))
         ELSE <<name>> \o sorted

RECURSIVE SortAscending(_)
SortAscending(names) ==
    IF names = <<>> THEN <<>>
    ELSE InsertAscending(names[Len(names)], SortAscending(SubSeq(names, 1, Len(names) - 1)))

\* variant: the listing is used in the order os.listdir gave it
sorted_listing_asListed(listing) == listing

\* invocation_files = sorted(invocation_files) (line 97)
sorted_listing(listing) == SortAscending(listing)

\* os.listdir(base_path) (lines 90-92): the matching names, in any order
ListDir == Arrangements([k \in 1..Len(directory) |-> k])

\* the file that os.path.join(base_path, file) names
FileNamed(name) ==
    [name |-> name, readable |-> directory[name].readable, rows |-> directory[name].rows]

\* variant: main goes on when the directory is missing
AfterCheck_noReturn(exists) == "call"

\* if not os.path.exists(base_path): ... return (lines 170-172)
AfterCheck(exists) == IF exists THEN "call" ELSE "returned"

\* main, lines 167-172
CheckDirectory ==
    /\ main_pc = "check"
    /\ main_pc' = AfterCheck(dir_exists)
    /\ UNCHANGED <<dir_exists, directory, parquet, invocation_files, max_workers, pc,
                   task, result, function_invocations, translation_data, completed,
                   diagnostics, df_invocations, translation_df, callVars>>

\* lines 87-109: the listing is read and sorted, and executor.submit is
\* called for every file of the sorted listing with its index
SubmitAll ==
    /\ main_pc = "call"
    /\ pc = "submit"
    /\ pc' = "collect"
    /\ \E listing \in ListDir :
           invocation_files' =
               [k \in 1..Len(listing) |-> FileNamed(sorted_listing(listing)[k])]
    /\ task' = [i \in 1..Len(directory) |-> "pending"]
    /\ result' = [i \in 1..Len(directory) |-> NoResult]
    /\ UNCHANGED <<max_workers, function_invocations,
                   translation_data, completed, diagnostics, df_invocations,
                   translation_df, mainVars, callVars>>

\* variant: a worker whose task raised never takes another task
CanStart_leak(i) ==
    /\ task[i] = "pending"
    /\ \A j \in FileIds : j < i => task[j] # "pending"
    /\ Cardinality({j \in FileIds :
                        \/ task[j] = "running"
                        \/ task[j] \in {"done", "merged"} /\ ~result[j].ok}) < max_workers

\* a worker thread is free and file i is the oldest queued task
CanStart(i) ==
    /\ task[i] = "pending"
    /\ \A j \in FileIds : j < i => task[j] # "pending"
    /\ Cardinality({j \in FileIds : task[j] = "running"}) < max_workers

\* variant: as_completed yields a future again after its result was merged
CanMerge_again(i) == pc = "collect" /\ task[i] \in {"done", "merged"}

\* as_completed can yield the future of file i
CanMerge(i) == pc = "collect" /\ task[i] = "done"

\* a free worker thread takes the oldest queued task
StartTask(i) ==
    /\ CanStart(i)
    /\ task' = [task EXCEPT ![i] = "running"]
    /\ UNCHANGED <<invocation_files, max_workers, pc, result, function_invocations,
                   translation_data, completed, diagnostics, df_invocations,
                   translation_df, mainVars, callVars>>

\* variant: the worker adds what it decoded to the collectors of
\* process_invocation_data itself
FinishTask_shared(i) ==
    /\ task[i] = "running"
    /\ LET r == process_file(invocation_files[i], i - 1)
       IN  /\ result' = [result EXCEPT ![i] = r]
           /\ diagnostics' = ReportError(diagnostics, i, r)
           /\ function_invocations' =
                  MergeInvocations(function_invocations, r.file_invocations, 1)
           /\ translation_data' = translation_data \o r.file_translations
    /\ task' = [task EXCEPT ![i] = "done"]
    /\ UNCHANGED <<invocation_files, max_workers, pc, completed, df_invocations,
                   translation_df, mainVars, callVars>>

\* the worker runs process_file(file, idx) to its return (lines 24-82)
FinishTask(i) ==
    /\ task[i] = "running"
    /\ LET r == process_file(invocation_files[i], i - 1)
       IN  /\ result' = [result EXCEPT ![i] = r]
           /\ diagnostics' = ReportError(diagnostics, i, r)
    /\ task' = [task EXCEPT ![i] = "done"]
    /\ UNCHANGED <<invocation_files, max_workers, pc, function_invocations,
                   translation_data, completed, df_invocations,
                   translation_df, mainVars, callVars>>

\* one iteration of "for future in as_completed(...)" (lines 114-130)
MergeResult(i) ==
    /\ CanMerge(i)
    /\ function_invocations' =
           MergeInvocations(function_invocations, result[i].file_invocations, 1)
    /\ translation_data' = translation_data \o result[i].file_translations
    /\ completed' = completed + 1
    /\ task' = [task EXCEPT ![i] = "merged"]
    /\ UNCHANGED <<invocation_files, max_workers, pc, result, diagnostics,
                   df_invocations, translation_df, mainVars, callVars>>

\* the loop and the with-block are left; lines 135-151
Normalize ==
    /\ pc = "collect"
    /\ AllCompleted
    /\ df_invocations' = NormalizedFrame(function_invocations)
    /\ pc' = "sort"
    /\ UNCHANGED <<invocation_files, max_workers, task, result, function_invocations,
                   translation_data, completed, diagnostics, translation_df,
                   mainVars, callVars>>

\* lines 153-162
Assemble ==
    /\ pc = "sort"
    /\ \E rows \in Arrangements(df_invocations) :
           df_invocations' = SortDescending(rows)
    /\ translation_df' = Unique(translation_data)
    /\ pc' = "done"
    /\ UNCHANGED <<invocation_files, max_workers, task, result, function_invocations,
                   translation_data, completed, diagnostics, mainVars, callVars>>

InvocationsArtifact == "azure2019_invocations.parquet"

TranslationArtifact == "azure2019_translation.parquet"

\* process_invocation_data has returned; df_invocations.write_parquet (lines 177-181)
SaveInvocations ==
    /\ main_pc = "call"
    /\ pc = "done"
    /\ parquet' = (InvocationsArtifact :> df_invocations) @@ parquet
    /\ main_pc' = "save_translation"
    /\ UNCHANGED <<dir_exists, directory, invocation_files, max_workers, pc,
                   task, result, function_invocations, translation_data, completed,
                   diagnostics, df_invocations, translation_df, callVars>>

\* translation_df.write_parquet (lines 183-187)
SaveTranslation ==
    /\ main_pc = "save_translation"
    /\ parquet' = (TranslationArtifact :> translation_df) @@ parquet
    /\ main_pc' = "returned"
    /\ UNCHANGED <<dir_exists, directory, invocation_files, max_workers, pc,
                   task, result, function_invocations, translation_data, completed,
                   diagnostics, df_invocations, translation_df, callVars>>

Next ==
    \/ CheckDirectory
    \/ SubmitAll
    \/ \E i \in FileIds : StartTask(i)
    \/ \E i \in FileIds : FinishTask(i)
    \/ \E i \in FileIds : MergeResult(i)
    \/ Normalize
    \/ Assemble
    \/ SaveInvocations
    \/ SaveTranslation

Spec == Init /\ [][Next]_vars

\* Whether the run ends depends on a file only through its decode
\* returning or raising: the directories of the runs with fairness hold
\* files that cannot be read, empty files, and files of one row that is
\* either well formed or has a null count.
FairRows == {row \in Rows : row.HashFunction = Str("a")}

FairListings ==
    {files \in Listings :
        \A k \in 1..Len(files) :
            /\ Len(files[k].rows) <= 1
            /\ Range(files[k].rows) \subseteq FairRows}

InitFair ==
    /\ Init
    /\ directory \in FairListings

\* every thread that can take a step takes one: a started process_file
\* call returns or raises, an idle worker takes the next queued task, and
\* the main thread goes on whenever as_completed has a future to yield
SpecFair == InitFair /\ [][Next]_vars /\ WF_vars(Next)

\* ------------------------------------------------------------------------
\* create_hash_id on its own: calls on arbitrary short strings
\* ------------------------------------------------------------------------
HashChars == {"a", "_"}

HashStrings == UNION {[1..n -> HashChars] : n \in 0..MaxStrLen}

InitHash ==
    /\ dir_exists = FALSE
    /\ directory = <<>>
    /\ main_pc = "hash"
    /\ parquet = <<>>
    /\ normalize_call = <<>>
    /\ invocation_files = <<>>
    /\ max_workers = 1
    /\ pc = "hash"
    /\ task = <<>>
    /\ result = <<>>
    /\ function_invocations = <<>>
    /\ translation_data = <<>>
    /\ completed = 0
    /\ diagnostics = <<>>
    /\ df_invocations = <<>>
    /\ translation_df = EmptyBag
    /\ hash_calls = <<>>

HashCall ==
    /\ pc = "hash"
    /\ Len(hash_calls) < MaxCalls
    /\ \E owner \in HashStrings, app \in HashStrings, func \in HashStrings :
           hash_calls' = Append(hash_calls,
                                [owner |-> owner, app |-> app, func |-> func,
                                 func_id |-> create_hash_id(owner, app, func)])
    /\ UNCHANGED <<invocation_files, max_workers, pc, task, result,
                   function_invocations, translation_data, completed, diagnostics,
                   df_invocations, translation_df, mainVars, normalize_call>>

NextHash == HashCall

SpecHash == InitHash /\ [][NextHash]_vars

\* ------------------------------------------------------------------------
\* normalize_time_list called on its own
\* ------------------------------------------------------------------------

\* the series of process_invocation_data hold the integers
\* base_timestamp + minute, in the order the results were merged
TimeLists == UNION {[1..n -> 1..MaxTime] : n \in 0..MaxListLen}

InitNorm ==
    /\ dir_exists = FALSE
    /\ directory = <<>>
    /\ main_pc = "normalize"
    /\ parquet = <<>>
    /\ normalize_call = <<>>
    /\ invocation_files = <<>>
    /\ max_workers = 1
    /\ pc = "normalize"
    /\ task = <<>>
    /\ result = <<>>
    /\ function_invocations = <<>>
    /\ translation_data = <<>>
    /\ completed = 0
    /\ diagnostics = <<>>
    /\ df_invocations = <<>>
    /\ translation_df = EmptyBag
    /\ hash_calls = <<>>

NormalizeCall ==
    /\ pc = "normalize"
    /\ normalize_call = <<>>
    /\ \E time_list \in TimeLists :
           normalize_call' = <<[time_list |-> time_list,
                                returned |-> normalize_time_list(time_list)]>>
    /\ UNCHANGED <<invocation_files, max_workers, pc, task, result,
                   function_invocations, translation_data, completed, diagnostics,
                   df_invocations, translation_df, mainVars, hash_calls>>

NextNorm == NormalizeCall

SpecNormalize == InitNorm /\ [][NextNorm]_vars

\* ------------------------------------------------------------------------
\* Reference notions, read off the input files alone
\* ------------------------------------------------------------------------
RowId(row) == create_hash_id(row.HashOwner, row.HashApp, row.HashFunction)

MinuteFields(row) == (DOMAIN row.counts) \cap (1..MinutesPerDay)

RowMalformed(row) == \E m \in MinuteFields(row) : row.counts[m] = <<>>

ShardFails(file) ==
    \/ ~file.readable
    \/ \E k \in 1..Len(file.rows) : RowMalformed(file.rows[k])

ExpectedCause(file) == IF ~file.readable THEN "read_csv" ELSE "TypeError"

Decoded == {i \in FileIds : ~ShardFails(invocation_files[i])}

Failed == {i \in FileIds : ShardFails(invocation_files[i])}

Finished == {i \in FileIds : task[i] \in {"done", "merged"}}

RECURSIVE SumOver(_, _)
SumOver(S, f) ==
    IF S = {} THEN 0
    ELSE LET x == CHOOSE y \in S : TRUE IN f[x] + SumOver(S \ {x}, f)

\* total of the minute-count fields of a well-formed row
RowTotal(row) == SumOver(MinuteFields(row), [m \in MinuteFields(row) |-> row.counts[m][1]])

RowIsZero(row) == \A m \in MinuteFields(row) : row.counts[m] = <<0>>

\* rows of file i that carry identity u
RowsOf(i, u) == {k \in 1..Len(invocation_files[i].rows) : RowId(invocation_files[i].rows[k]) = u}

\* total of the minute-count fields of identity u over the decoded shards
ExpectedCount(u) ==
    SumOver(Decoded,
            [i \in Decoded |->
                SumOver(RowsOf(i, u),
                        [k \in RowsOf(i, u) |-> RowTotal(invocation_files[i].rows[k])])])

\* what the decode of file i returns
Contribution(i) == process_file(invocation_files[i], i - 1)

ContributedSeries(i, u) ==
    IF u \in DictKeys(Contribution(i).file_invocations)
    THEN DictGet(Contribution(i).file_invocations, u)
    ELSE <<>>

\* the part of a series that lies on the time axis of file i
InShard(t, i) == (i - 1) * MinutesPerDay < t /\ t <= i * MinutesPerDay

ShardPart(series, i) == SelectSeq(series, LAMBDA t : InShard(t, i))

UuidsOf(frame) == {frame[k].uuid : k \in 1..Len(frame)}

RowFor(frame, u) == frame[CHOOSE k \in 1..Len(frame) : frame[k].uuid = u]

Done == pc = "done"

\* identities of the rows of all files
AllIds ==
    UNION {{RowId(invocation_files[i].rows[k]) : k \in 1..Len(invocation_files[i].rows)} :
              i \in FileIds}

ZeroEverywhere(u) ==
    \A i \in FileIds : \A k \in RowsOf(i, u) : RowIsZero(invocation_files[i].rows[k])

CountIn(s, x) == Cardinality({k \in 1..Len(s) : s[k] = x})

\* identity -> multiset of timestamps, for a dict and for a frame
Content(d) == [u \in DictKeys(d) |-> SeqToBag(DictGet(d, u))]

FrameContent(frame) == [u \in UuidsOf(frame) |-> SeqToBag(RowFor(frame, u).time)]

\* the run that merges the results in the order of the file indices
RECURSIVE IndexOrderRun(_)
IndexOrderRun(n) ==
    IF n = 0 THEN [inv |-> <<>>, tr |-> <<>>]
    ELSE LET prev == IndexOrderRun(n - 1)
             r == Contribution(n)
         IN  [inv |-> MergeInvocations(prev.inv, r.file_invocations, 1),
              tr |-> prev.tr \o r.file_translations]

EveryTaskMerged == \A i \in FileIds : task[i] = "merged"

\* some step of the run can be taken: the guard of one of the actions
\* holds (their updates are defined in every state)
CanStep ==
    \/ main_pc = "check"
    \/ main_pc = "call" /\ pc \in {"submit", "done"}
    \/ main_pc = "save_translation"
    \/ \E i \in FileIds : CanStart(i)
    \/ \E i \in FileIds : task[i] = "running"
    \/ \E i \in FileIds : CanMerge(i)
    \/ pc = "collect" /\ AllCompleted
    \/ pc = "sort"

\* CanStep is the enabling condition of Next
CanStepIsEnabled == CanStep <=> ENABLED Next

\* the run has not stopped short of its end
RunContinues == main_pc # "returned" => CanStep

\* ------------------------------------------------------------------------
\* Claims
\* ------------------------------------------------------------------------

\* C1: conservation of count. At the end of process_invocation_data the
\* call_count of every identity of the invocation table is the total of the
\* minute-count fields of all rows carrying that identity in the decoded
\* shards, also when one shard has several rows of one identity.
C1_ConservationOfCount ==
    Done => \A k \in 1..Len(df_invocations) :
                df_invocations[k].call_count = ExpectedCount(df_invocations[k].uuid)

\* C2: merge commutativity. Whatever the completion order, the merged
\* accumulators and the output tables have the content (identity ->
\* multiset of timestamps, set of translation records) of the run that
\* merges the same results in index order.
C2_MergeCommutativity ==
    LET ref == IndexOrderRun(Len(invocation_files))
    IN  /\ (pc = "collect" /\ EveryTaskMerged) =>
               /\ Content(function_invocations) = Content(ref.inv)
               /\ Range(translation_data) = Range(ref.tr)
        /\ Done =>
               /\ FrameContent(df_invocations) = FrameContent(NormalizedFrame(ref.inv))
               /\ translation_df = Unique(ref.tr)

\* a finished run that merged file 2 before file 1 under a shared identity
C2_Witness ==
    /\ Done
    /\ \E k \in 1..Len(function_invocations) :
           LET series == function_invocations[k].time
           IN  /\ InShard(series[1], 2)
               /\ \E j \in 1..Len(series) : InShard(series[j], 1)

\* C3: failure isolation. A shard whose decode raises returns an empty
\* series map and an empty translation list; the accumulators hold, for
\* every decoded shard, exactly its own contribution and nothing on the time
\* axis of a failed shard; the run goes on to its end and builds both tables.
C3_FailureIsolation ==
    /\ \A i \in Finished \cap Failed :
           /\ ~result[i].ok
           /\ result[i].file_invocations = <<>>
           /\ result[i].file_translations = <<>>
    /\ (pc # "submit" /\ EveryTaskMerged) =>
           /\ DictKeys(function_invocations) =
                  UNION {DictKeys(Contribution(i).file_invocations) : i \in Decoded}
           /\ \A u \in DictKeys(function_invocations) : \A i \in FileIds :
                  ShardPart(DictGet(function_invocations, u), i) =
                      IF i \in Decoded THEN ContributedSeries(i, u) ELSE <<>>
           /\ \A rec \in Range(translation_data) \cup
                         UNION {Range(Contribution(i).file_translations) : i \in Decoded} :
                  CountIn(translation_data, rec) =
                      SumOver(Decoded, [i \in Decoded |->
                                  CountIn(Contribution(i).file_translations, rec)])
    /\ RunContinues
    /\ Done =>
           /\ UuidsOf(df_invocations) = DictKeys(function_invocations)
           /\ BagToSet(translation_df) = Range(translation_data)

\* a finished run in which a shard failed at a row after it had collected a
\* translation record and timestamps, next to a decoded shard that fills
\* the invocation table
C3_Witness ==
    /\ Done
    /\ df_invocations # <<>>
    /\ \E i \in Failed :
           \E k \in 1..Len(invocation_files[i].rows) :
               LET row == invocation_files[i].rows[k]
               IN  /\ RowMalformed(row)
                   /\ \E m \in MinuteFields(row) :
                          /\ row.counts[m] # <<>>
                          /\ row.counts[m][1] > 0
                          /\ \E n \in MinuteFields(row) : n > m /\ row.counts[n] = <<>>

\* C4: normalization anchoring. Every series of the invocation table that
\* has at least one element has minimum 0.
C4_NormalizationAnchoring ==
    pc \in {"sort", "done"} =>
        \A k \in 1..Len(df_invocations) :
            Len(df_invocations[k].time) >= 1 =>
                SetMin(Range(df_invocations[k].time)) = 0

\* a finished run with a merged series whose first element is not its minimum
C4_Witness ==
    /\ Done
    /\ \E k \in 1..Len(function_invocations) :
           LET series == function_invocations[k].time
           IN  series[1] # SetMin(Range(series))

\* minimum of identity u over the contributions of all decoded shards
GlobalMin(u) == SetMin(UNION {Range(ContributedSeries(i, u)) : i \in Decoded})

TimeColumn(frame) == [u \in UuidsOf(frame) |-> RowFor(frame, u).time]

\* C5: normalization only on fully merged data. Once a table row exists,
\* every task has completed and been merged; the series of the table are
\* the merged series shifted by the minimum over all shards; and the time
\* column is written once, by the step that follows the last merge.
C5_NormalizeAfterMerge ==
    /\ [](  (pc \in {"sort", "done"} \/ df_invocations # <<>> \/ translation_df # EmptyBag)
            => /\ EveryTaskMerged
               /\ completed = Len(invocation_files)
               /\ UuidsOf(df_invocations) = DictKeys(function_invocations)
               /\ \A u \in UuidsOf(df_invocations) :
                      LET merged == DictGet(function_invocations, u)
                      IN  RowFor(df_invocations, u).time =
                              [j \in 1..Len(merged) |-> merged[j] - GlobalMin(u)] )
    /\ [][ TimeColumn(df_invocations)' # TimeColumn(df_invocations)
           => (pc = "collect" /\ pc' = "sort" /\ EveryTaskMerged) ]_vars

\* a finished run with a series fed by both files
C5_Witness ==
    /\ Done
    /\ Len(invocation_files) >= 2
    /\ \E u \in UuidsOf(df_invocations) :
           /\ ContributedSeries(1, u) # <<>>
           /\ ContributedSeries(2, u) # <<>>

\* C6: identity of a triple. Two calls of create_hash_id return the same
\* identifier exactly when they are given the same (owner, app, func).
C6_IdentityOfTriple ==
    \A a, b \in 1..Len(hash_calls) :
        (hash_calls[a].func_id = hash_calls[b].func_id)
        <=> (/\ hash_calls[a].owner = hash_calls[b].owner
             /\ hash_calls[a].app = hash_calls[b].app
             /\ hash_calls[a].func = hash_calls[b].func)

\* what a decoded shard returns for its all-zero rows
ZeroRowsOfDecodedShards ==
    \A i \in Finished \cap Decoded :
        /\ \A k \in 1..Len(invocation_files[i].rows) :
               LET row == invocation_files[i].rows[k]
               IN  RowIsZero(row) =>
                       /\ TranslationRecord(row) \in Range(result[i].file_translations)
                       /\ (\A j \in RowsOf(i, RowId(row)) : RowIsZero(invocation_files[i].rows[j]))
                              => RowId(row) \notin DictKeys(result[i].file_invocations)
        /\ \A k \in 1..Len(result[i].file_invocations) :
               result[i].file_invocations[k].time # <<>>

InTranslationTable(u) == \E rec \in BagToSet(translation_df) : rec.new_hash_uuid = u

\* C7 as stated: an identity whose counts are zero in every shard has a row
\* in the translation table and none in the invocation table.
C7_ZeroActivity_AsStated ==
    /\ ZeroRowsOfDecodedShards
    /\ Done => \A u \in AllIds :
                   ZeroEverywhere(u) =>
                       InTranslationTable(u) /\ u \notin UuidsOf(df_invocations)

\* C7: zero-activity functions. An all-zero row of a decoded shard gives a
\* translation record and no series entry; an identity whose counts are
\* zero in every shard and that occurs in a decoded shard has a row in the
\* translation table and none in the invocation table.
C7_ZeroActivity ==
    /\ ZeroRowsOfDecodedShards
    /\ Done => \A u \in AllIds :
                   (ZeroEverywhere(u) /\ \E i \in Decoded : RowsOf(i, u) # {}) =>
                       InTranslationTable(u) /\ u \notin UuidsOf(df_invocations)

\* a finished run with an all-zero identity of a decoded shard, next to an
\* identity with invocations
C7_Witness ==
    /\ Done
    /\ df_invocations # <<>>
    /\ \E u \in AllIds : ZeroEverywhere(u) /\ \E i \in Decoded : RowsOf(i, u) # {}

\* C8: sort correctness. call_count does not increase from a row of the
\* invocation table to the next.
C8_SortCorrectness ==
    Done => \A k \in 1..(Len(df_invocations) - 1) :
                df_invocations[k].call_count >= df_invocations[k + 1].call_count

\* a finished run whose table starts with an identity that was merged second
C8_Witness ==
    /\ Done
    /\ Len(df_invocations) = 2
    /\ df_invocations[1].call_count > df_invocations[2].call_count
    /\ function_invocations[1].uuid = df_invocations[2].uuid

\* C9: translation uniqueness. No row of the translation table occurs
\* twice, and its rows are the records of the rows of the decoded shards.
C9_TranslationUniqueness ==
    Done =>
        /\ \A rec \in BagToSet(translation_df) : translation_df[rec] = 1
        /\ BagToSet(translation_df) =
               UNION {{TranslationRecord(invocation_files[i].rows[k]) :
                          k \in 1..Len(invocation_files[i].rows)} : i \in Decoded}

\* a finished run in which two decoded shards reported the same record
C9_Witness ==
    /\ Done
    /\ \E i, j \in Decoded :
           /\ i # j
           /\ Range(result[i].file_translations) \cap Range(result[j].file_translations) # {}

\* C10: failure diagnostics. The lines printed name exactly the shards
\* whose decode has failed, once each and with the cause; these are the
\* shards that returned nothing because of an error; the run is not stopped.
C10_FailureDiagnostics ==
    /\ {diagnostics[k].file : k \in 1..Len(diagnostics)} = Finished \cap Failed
    /\ Len(diagnostics) = Cardinality(Finished \cap Failed)
    /\ \A k \in 1..Len(diagnostics) :
           diagnostics[k].cause = ExpectedCause(invocation_files[diagnostics[k].file])
    /\ {diagnostics[k].file : k \in 1..Len(diagnostics)} =
           {i \in Finished : ~result[i].ok /\ result[i].file_invocations = <<>>
                                /\ result[i].file_translations = <<>>}
    /\ RunContinues

\* a finished run with two failed shards reported with different causes
C10_Witness ==
    /\ Done
    /\ \E a, b \in 1..Len(diagnostics) : diagnostics[a].cause # diagnostics[b].cause

\* C11: no partial output. An artifact is written only when the directory
\* exists and process_invocation_data has returned with every task of the
\* listing merged; what is written is the assembled table; and nothing is
\* written, and the pipeline is not entered, when the directory is absent.
C11_NoPartialOutput ==
    /\ DOMAIN parquet # {} =>
           /\ dir_exists
           /\ pc = "done"
           /\ Len(invocation_files) = Len(directory)
           /\ EveryTaskMerged
           /\ completed = Len(directory)
    /\ InvocationsArtifact \in DOMAIN parquet =>
           parquet[InvocationsArtifact] = df_invocations
    /\ TranslationArtifact \in DOMAIN parquet =>
           /\ InvocationsArtifact \in DOMAIN parquet
           /\ parquet[TranslationArtifact] = translation_df
    /\ ~dir_exists => (parquet = <<>> /\ pc = "submit" /\ main_pc \in {"check", "returned"})

\* main has returned after writing both tables of a run over two files
C11_Witness ==
    /\ main_pc = "returned"
    /\ DOMAIN parquet = {InvocationsArtifact, TranslationArtifact}
    /\ Len(invocation_files) = 2
    /\ parquet[InvocationsArtifact] # <<>>

\* C12: termination. Once process_invocation_data is called, for every
\* pool size and every listing (the empty one included), the run reaches
\* the point where every task of the listing has been decoded and merged,
\* failed ones included, and both tables are normalized and assembled.
C12_Termination ==
    (main_pc = "call") ~>
        /\ pc = "done"
        /\ Len(task) = Len(directory)
        /\ EveryTaskMerged
        /\ completed = Len(directory)
        /\ \A i \in Decoded : result[i].ok

\* a run with one worker thread ended after a failed first shard and a
\* decoded second shard
C12_Witness ==
    /\ pc = "done"
    /\ max_workers = 1
    /\ Len(invocation_files) = 2
    /\ 1 \in Failed
    /\ 2 \in Decoded
    /\ task[2] = "merged"
    /\ result[2].file_invocations # <<>>

\* copies of timestamp (i - 1) * 1440 + m that the rows of identity u in
\* file i call for
ExpectedCopies(i, u, m) ==
    SumOver(RowsOf(i, u),
            [k \in RowsOf(i, u) |->
                LET row == invocation_files[i].rows[k]
                IN  IF m \in MinuteFields(row) /\ row.counts[m][1] > 0
                    THEN row.counts[m][1] ELSE 0])

\* the series the decode of file i returned for identity u
RecordedSeries(i, u) ==
    IF u \in DictKeys(result[i].file_invocations)
    THEN DictGet(result[i].file_invocations, u)
    ELSE <<>>

\* minute columns of the rows of file i
ShardMinutes(i) ==
    UNION {MinuteFields(invocation_files[i].rows[k]) : k \in 1..Len(invocation_files[i].rows)}

\* C13: sparse expansion. The series a decoded shard i returns for an
\* identity holds, for every minute m, as many copies of i*1440 + m as the
\* counts of minute m of all rows of that identity in the shard add up to,
\* and no other timestamp.
C13_SparseExpansion ==
    \A i \in Finished \cap Decoded : \A u \in AllIds :
        LET series == RecordedSeries(i, u)
            base_timestamp == (i - 1) * MinutesPerDay
        IN  /\ \A t \in Range(series) : InShard(t, i)
            /\ \A m \in ShardMinutes(i) :
                   CountIn(series, base_timestamp + m) = ExpectedCopies(i, u, m)

\* all timestamps of a series map
TimestampsOf(d) == UNION {Range(d[k].time) : k \in 1..Len(d)}

\* C14: time-axis anchoring. The task at position i of the submitted list
\* decodes the i-th file of the directory in name order, whatever order the
\* listing came in; every timestamp a task returns lies in the day of that
\* position, days of different positions do not overlap, and every
\* timestamp of the merged map lies in the day of a merged decoded shard,
\* whatever the completion order and whichever other shards failed.
C14_TimeAxisAnchoring ==
    pc # "submit" =>
        /\ Len(invocation_files) = Len(directory)
        /\ \A i \in FileIds : invocation_files[i] = FileNamed(i)
        /\ \A i \in Finished :
               /\ result[i] = process_file(FileNamed(i), i - 1)
               /\ \A t \in TimestampsOf(result[i].file_invocations) :
                      /\ (i - 1) * MinutesPerDay + 1 <= t
                      /\ t <= (i - 1) * MinutesPerDay + MinutesPerDay
        /\ \A i, j \in Finished :
               i # j => TimestampsOf(result[i].file_invocations)
                            \cap TimestampsOf(result[j].file_invocations) = {}
        /\ \A t \in TimestampsOf(function_invocations) :
               \E i \in Decoded : task[i] = "merged" /\ InShard(t, i)

\* the second shard was merged first, while the first shard, which fails,
\* is still being decoded; its last minute is on the merged time axis
C14_Witness ==
    /\ pc = "collect"
    /\ Len(invocation_files) = 2
    /\ task = <<"running", "merged">>
    /\ 1 \in Failed
    /\ 2 * MinutesPerDay \in TimestampsOf(function_invocations)

Merged == {i \in FileIds : task[i] = "merged"}

\* C15: exactly-once merge. One task is submitted per file of the
\* directory; the number of merge steps taken is the number of merged
\* tasks; every translation record and every timestamp of an identity is in
\* the accumulators exactly as often as the results of the merged tasks
\* hold it together; and the loop is left only with every task merged.
C15_ExactlyOnceMerge ==
    pc # "submit" =>
        /\ Len(task) = Len(directory)
        /\ \A i, j \in FileIds : i # j => invocation_files[i].name # invocation_files[j].name
        /\ {invocation_files[i].name : i \in FileIds} = DOMAIN directory
        /\ completed = Cardinality(Merged)
        /\ Len(translation_data) =
               SumOver(Merged, [i \in Merged |-> Len(result[i].file_translations)])
        /\ \A rec \in Range(translation_data)
                      \cup UNION {Range(result[i].file_translations) : i \in Merged} :
               CountIn(translation_data, rec) =
                   SumOver(Merged, [i \in Merged |-> CountIn(result[i].file_translations, rec)])
        /\ \A u \in DictKeys(function_invocations)
                    \cup UNION {DictKeys(result[i].file_invocations) : i \in Merged} :
               LET series == IF u \in DictKeys(function_invocations)
                             THEN DictGet(function_invocations, u) ELSE <<>>
               IN  /\ Len(series) =
                          SumOver(Merged, [i \in Merged |-> Len(RecordedSeries(i, u))])
                   /\ \A t \in Range(series) :
                          CountIn(series, t) =
                              SumOver(Merged, [i \in Merged |-> CountIn(RecordedSeries(i, u), t)])
        /\ pc \in {"sort", "done"} => Merged = FileIds

\* both tasks of a two-file run are merged and each brought the same
\* translation record and a series for the same identity
C15_Witness ==
    /\ pc = "collect"
    /\ Len(invocation_files) = 2
    /\ completed = 2
    /\ Merged = {1, 2}
    /\ \E rec \in Range(translation_data) : CountIn(translation_data, rec) = 2
    /\ \E k \in 1..Len(function_invocations) :
           /\ \E t \in Range(function_invocations[k].time) : InShard(t, 1)
           /\ \E t \in Range(function_invocations[k].time) : InShard(t, 2)

\* C16: merge serialization. Every step that changes the global series
\* map, the translation list or the completed counter is the merge of the
\* whole result of exactly one finished task: that task alone goes from
\* done to merged, both accumulators take its result in the same step, and
\* no decode task returns in that step; a step of a decode task leaves the
\* accumulators as they are.
C16_MergeSerialization ==
    [][ /\ ( \/ function_invocations' # function_invocations
             \/ translation_data' # translation_data
             \/ completed' # completed )
           => \E i \in FileIds :
                  /\ task[i] = "done"
                  /\ task' = [task EXCEPT ![i] = "merged"]
                  /\ function_invocations' =
                         MergeInvocations(function_invocations, result[i].file_invocations, 1)
                  /\ translation_data' = translation_data \o result[i].file_translations
                  /\ completed' = completed + 1
                  /\ result' = result
        /\ result' # result
           => /\ function_invocations' = function_invocations
              /\ translation_data' = translation_data
      ]_vars

\* the first task's result is merged while the second task is still being
\* decoded
C16_Witness ==
    /\ pc = "collect"
    /\ task = <<"merged", "running">>
    /\ function_invocations # <<>>
    /\ translation_data # <<>>
    /\ 2 \in Decoded
    /\ invocation_files[2].rows # <<>>

\* C17: normalization is a uniform shift. normalize_time_list returns a
\* list as long as its argument whose k-th element is the k-th element of
\* the argument minus the least element of the argument, so that
\* differences and multiplicities are those of the argument; the empty
\* list gives the empty list.
C17_UniformShift ==
    \A c \in Range(normalize_call) :
        LET given == c.time_list
            returned == c.returned
        IN  /\ Len(returned) = Len(given)
            /\ given = <<>> => returned = <<>>
            /\ given # <<>> =>
                   LET least == CHOOSE m \in Range(given) : \A x \in Range(given) : m <= x
                   IN  \A k \in 1..Len(given) : returned[k] = given[k] - least
            /\ \A j, k \in 1..Len(given) : returned[j] - returned[k] = given[j] - given[k]
            /\ \A k \in 1..Len(given) : CountIn(returned, returned[k]) = CountIn(given, given[k])

\* a call with a list that is not in ascending order, repeats its least
\* element, and does not start at the first minute
C17_Witness ==
    \E c \in Range(normalize_call) :
        /\ Len(c.time_list) = 3
        /\ c.time_list[1] > c.time_list[2]
        /\ c.time_list[2] = c.time_list[3]
        /\ c.time_list[2] > 1
        /\ c.returned = <<c.time_list[1] - c.time_list[2], 0, 0>>

\* identities with a row of positive total in a decoded shard
ActiveIds ==
    {u \in AllIds :
        \E i \in Decoded : \E k \in RowsOf(i, u) : RowTotal(invocation_files[i].rows[k]) > 0}

\* C18: one row per identity. The invocation table has a row for exactly
\* the identities that got a timestamp from a decoded shard, no two rows
\* have the same identifier, and call_count is the length of the row's
\* series.
C18_OneRowPerIdentity ==
    pc \in {"sort", "done"} =>
        /\ UuidsOf(df_invocations) = ActiveIds
        /\ Len(df_invocations) = Cardinality(ActiveIds)
        /\ \A j, k \in 1..Len(df_invocations) :
               j # k => df_invocations[j].uuid # df_invocations[k].uuid
        /\ \A k \in 1..Len(df_invocations) :
               df_invocations[k].call_count = Len(df_invocations[k].time)

\* two decoded shards with one row each of the same identity end as one
\* row of the table
C18_Witness ==
    /\ Done
    /\ Decoded = {1, 2}
    /\ Len(invocation_files[1].rows) = 1
    /\ Len(invocation_files[2].rows) = 1
    /\ Len(df_invocations) = 1
    /\ df_invocations[1].call_count = 4

\* C19: referential integrity. Every identifier of the invocation table is
\* the new_hash_uuid of a row of the translation table, in the tables
\* returned and in the files written, whichever shards failed and in
\* whatever order the results came in.
C19_ReferentialIntegrity ==
    /\ Done => \A u \in UuidsOf(df_invocations) :
                   \E rec \in BagToSet(translation_df) : rec.new_hash_uuid = u
    /\ TranslationArtifact \in DOMAIN parquet =>
           \A u \in UuidsOf(parquet[InvocationsArtifact]) :
               \E rec \in BagToSet(parquet[TranslationArtifact]) : rec.new_hash_uuid = u

\* both files are written; an identity of the invocation table also has a
\* row in a shard whose decode failed
C19_Witness ==
    /\ TranslationArtifact \in DOMAIN parquet
    /\ \E u \in UuidsOf(parquet[InvocationsArtifact]) :
           \E i \in Failed : RowsOf(i, u) # {}

TypeOK ==
    /\ pc \in {"submit", "collect", "sort", "done"}
    /\ completed \in 0..Len(invocation_files)
====
